---- MODULE Spec2Model ----
(***************************************************************************)
(* Model of src/tvm/fv.rs of rust-finprim: the future value functions      *)
(* fv_internal and fv over rust_decimal's Decimal.                         *)
(*                                                                         *)
(* A Decimal is a sign, a 96-bit unsigned mantissa and a scale 0..28; its  *)
(* value is (-1)^neg * m / 10^s.  TLC's integers are 32 bits wide, so a    *)
(* mantissa is kept as a little-endian sequence of limbs in base 10^4      *)
(* without leading zero limbs (zero is the empty sequence).  Decimals are  *)
(* kept normalised (no trailing decimal zeros, zero is never negative) so  *)
(* that Decimal's numeric == is TLA+ equality.                             *)
(***************************************************************************)
EXTENDS Integers, Sequences, FiniteSets, TLC

Base == 10000
LimbDigits == 4
MAX_PRECISION == 28

\* 2^96 - 1 = 79228162514264337593543950335, Decimal's largest mantissa
MAX_MANTISSA == <<335, 4395, 5935, 4337, 1426, 1625, 9228, 7>>

----------------------------------------------------------------------------
\* Unsigned multi-limb integers

RECURSIVE NTrim(_)
NTrim(a) ==
  IF a = <<>> THEN a
  ELSE IF a[Len(a)] = 0 THEN NTrim(SubSeq(a, 1, Len(a) - 1)) ELSE a

NFromInt(n) ==
  IF n = 0 THEN <<>>
  ELSE IF n < Base THEN <<n>>
  ELSE IF n < Base * Base THEN <<n % Base, n \div Base>>
  ELSE <<n % Base, (n \div Base) % Base, n \div (Base * Base)>>

RECURSIVE NAddC(_, _, _)
NAddC(a, b, c) ==
  IF a = <<>> /\ b = <<>> THEN (IF c = 0 THEN <<>> ELSE <<c>>)
  ELSE IF b = <<>> /\ c = 0 THEN a
  ELSE IF a = <<>> /\ c = 0 THEN b
  ELSE LET x == (IF a = <<>> THEN 0 ELSE a[1]) + (IF b = <<>> THEN 0 ELSE b[1]) + c
       IN <<x % Base>> \o NAddC(IF a = <<>> THEN a ELSE Tail(a),
                                IF b = <<>> THEN b ELSE Tail(b), x \div Base)

NAdd(a, b) == NAddC(a, b, 0)

\* a - b - c for a >= b + c, limb by limb with borrow c
RECURSIVE NSubB(_, _, _)
NSubB(a, b, c) ==
  IF b = <<>> /\ c = 0 THEN a
  ELSE LET x == a[1] - (IF b = <<>> THEN 0 ELSE b[1]) - c
       IN IF x < 0
          THEN <<x + Base>> \o NSubB(Tail(a), IF b = <<>> THEN b ELSE Tail(b), 1)
          ELSE <<x>> \o NSubB(Tail(a), IF b = <<>> THEN b ELSE Tail(b), 0)

NSub(a, b) == NTrim(NSubB(a, b, 0))

\* -1, 0, 1 as a < b, a = b, a > b
RECURSIVE NCmpAt(_, _, _)
NCmpAt(a, b, i) ==
  IF i = 0 THEN 0
  ELSE IF a[i] < b[i] THEN -1
  ELSE IF a[i] > b[i] THEN 1
  ELSE NCmpAt(a, b, i - 1)

NCmp(a, b) ==
  IF Len(a) < Len(b) THEN -1
  ELSE IF Len(a) > Len(b) THEN 1
  ELSE NCmpAt(a, b, Len(a))

RECURSIVE NMulSmallC(_, _, _)
NMulSmallC(a, d, c) ==
  IF a = <<>> THEN (IF c = 0 THEN <<>> ELSE <<c>>)
  ELSE LET x == a[1] * d + c
       IN <<x % Base>> \o NMulSmallC(Tail(a), d, x \div Base)

\* a * d for 0 <= d < Base
NMulSmall(a, d) == IF d = 0 THEN <<>> ELSE IF d = 1 THEN a ELSE NMulSmallC(a, d, 0)

\* a * Base^k
RECURSIVE NShift(_, _)
NShift(a, k) == IF a = <<>> \/ k = 0 THEN a ELSE <<0>> \o NShift(a, k - 1)

RECURSIVE NMul(_, _)
NMul(a, b) ==
  IF a = <<>> \/ b = <<>> THEN <<>>
  ELSE IF Len(a) > Len(b) THEN NMul(b, a)
  ELSE NAdd(NMulSmall(b, a[1]), NShift(NMul(Tail(a), b), 1))

\* quotient and remainder of a by a single limb 0 < d < Base, from the top limb
\* down; r < d is the remainder so far
RECURSIVE NDivSmallAt(_, _, _, _, _)
NDivSmallAt(a, d, i, r, q) ==
  IF i > 0 /\ r < d
  THEN LET cur == r * Base + a[i]
       IN NDivSmallAt(a, d, i - 1, cur % d, <<cur \div d>> \o q)
  ELSE [q |-> NTrim(q), r |-> r]

NDivSmall(a, d) == NDivSmallAt(a, d, Len(a), 0, <<>>)

\* the largest digit x in lo..hi with x * b <= r (lo * b <= r is given)
RECURSIVE NDigit(_, _, _, _)
NDigit(r, b, lo, hi) ==
  IF lo = hi THEN lo
  ELSE LET mid == (lo + hi + 1) \div 2
       IN IF NCmp(NMulSmall(b, mid), r) <= 0
          THEN NDigit(r, b, mid, hi)
          ELSE NDigit(r, b, lo, mid - 1)

\* r * Base + d for a limb d
NPush(d, r) == IF r = <<>> THEN NFromInt(d) ELSE <<d>> \o r

\* the quotient digit of cur by b, for cur < b * Base
NQuotDigit(cur, b) == IF NCmp(cur, b) < 0 THEN 0 ELSE NDigit(cur, b, 1, Base - 1)

\* schoolbook long division of a by b # 0, from the top limb down; r < b is the
\* remainder so far, cur the remainder with limb i brought down, x its digit
RECURSIVE NDivModAt(_, _, _, _, _)
NDivModDigit(a, b, i, cur, x, q) ==
  NDivModAt(a, b, i - 1, NSub(cur, NMulSmall(b, x)), <<x>> \o q)

NDivModCur(a, b, i, cur, q) == NDivModDigit(a, b, i, cur, NQuotDigit(cur, b), q)

NDivModAt(a, b, i, r, q) ==
  IF i > 0 /\ NCmp(r, b) < 0
  THEN NDivModCur(a, b, i, NPush(a[i], r), q)
  ELSE [q |-> NTrim(q), r |-> r]

NDivModSmall(x) == [q |-> x.q, r |-> NFromInt(x.r)]

NDivMod(a, b) ==
  IF Len(b) = 1
  THEN NDivModSmall(NDivSmall(a, b[1]))
  ELSE NDivModAt(a, b, Len(a), <<>>, <<>>)

\* 10^k for 0 <= k < LimbDigits
SmallPow10(k) == IF k = 0 THEN 1 ELSE IF k = 1 THEN 10 ELSE IF k = 2 THEN 100 ELSE 1000

\* 10^k
NPow10(k) == NShift(<<SmallPow10(k % LimbDigits)>>, k \div LimbDigits)

\* a * 10^k
NMulPow10(a, k) == NShift(NMulSmall(a, SmallPow10(k % LimbDigits)), k \div LimbDigits)

\* quotient and remainder of a by 10^k
NLow(a, j) == IF j >= Len(a) THEN a ELSE SubSeq(a, 1, j)

NHigh(a, j) == IF j >= Len(a) THEN <<>> ELSE SubSeq(a, j + 1, Len(a))

NJoin(lo, x) == [q |-> x.q, r |-> NTrim(lo \o NFromInt(x.r))]

NDivPow10(a, k) ==
  NJoin(NLow(a, k \div LimbDigits),
        NDivSmall(NHigh(a, k \div LimbDigits), SmallPow10(k % LimbDigits)))

\* the number of decimal digits of a (0 for zero)
NDigits(a) ==
  IF a = <<>> THEN 0
  ELSE LET t == a[Len(a)]
       IN LimbDigits * (Len(a) - 1)
          + (IF t < 10 THEN 1 ELSE IF t < 100 THEN 2 ELSE IF t < 1000 THEN 3 ELSE 4)

----------------------------------------------------------------------------
\* Decimal: [neg, m, s], value (-1)^neg * m / 10^s, normalised

ZERO == [neg |-> FALSE, m |-> <<>>, s |-> 0]
ONE  == [neg |-> FALSE, m |-> <<1>>, s |-> 0]

RECURSIVE Normalize(_, _, _)
Normalize(neg, m, s) ==
  IF m = <<>> THEN ZERO
  ELSE IF s >= LimbDigits /\ m[1] = 0 THEN Normalize(neg, Tail(m), s - LimbDigits)
  ELSE IF s > 0 /\ m[1] % 10 = 0 THEN Normalize(neg, NDivSmall(m, 10).q, s - 1)
  ELSE [neg |-> neg, m |-> m, s |-> s]

\* the decimal n / 10^s of a small integer n
Dec(n, s) == Normalize(n < 0, NFromInt(IF n < 0 THEN -n ELSE n), s)

\* The outcome of one Decimal operation: err is "none" or the panic message,
\* val the value, exact whether val is the exact mathematical result.
Done(d, exact) == [err |-> "none", val |-> d, exact |-> exact]
Panic(msg) == [err |-> msg, val |-> ZERO, exact |-> FALSE]

\* Round n / 10^s (plus a positive fraction of the last place when sticky) to a
\* Decimal: drop k low digits, half to even, then more while the mantissa
\* exceeds 96 bits; the operation overflows when the scale would go below 0.
\* half is the dropped part d.r against half of the last place: -1, 0, 1
RoundsUp(d, half, sticky) ==
  half > 0 \/ (half = 0 /\ (sticky \/ (d.q # <<>> /\ d.q[1] % 2 = 1)))

RoundHalfEven(d, k, sticky) ==
  IF RoundsUp(d, NCmp(NMulSmall(d.r, 2), NPow10(k)), sticky)
  THEN NAdd(d.q, <<1>>)
  ELSE d.q

RECURSIVE FitAt(_, _, _, _, _, _)
FitRounded(neg, n, s, sticky, k, msg, q, exact) ==
  IF NCmp(q, MAX_MANTISSA) > 0
  THEN FitAt(neg, n, s, sticky, k + 1, msg)
  ELSE Done(Normalize(neg, q, s - k), exact)

FitDropped(neg, n, s, sticky, k, msg, d) ==
  FitRounded(neg, n, s, sticky, k, msg, RoundHalfEven(d, k, sticky),
             d.r = <<>> /\ ~sticky)

FitAt(neg, n, s, sticky, k, msg) ==
  IF k > s THEN Panic(msg)
  ELSE FitDropped(neg, n, s, sticky, k, msg, NDivPow10(n, k))

Max2(a, b) == IF a > b THEN a ELSE b

Fit(neg, n, s, sticky, msg) ==
  IF s <= MAX_PRECISION /\ ~sticky /\ NCmp(n, MAX_MANTISSA) <= 0
  THEN Done(Normalize(neg, n, s), TRUE)
  ELSE FitAt(neg, n, s, sticky,
             Max2(Max2(s - MAX_PRECISION, NDigits(n) - NDigits(MAX_MANTISSA)), 0), msg)

\* impl Neg for Decimal
Neg(x) == IF x.m = <<>> THEN x ELSE [x EXCEPT !.neg = ~x.neg]

\* -1, 0, 1 as x < y, x = y, x > y
DCmp(x, y) ==
  IF x.neg # y.neg THEN (IF x.neg THEN -1 ELSE 1)
  ELSE LET s == Max2(x.s, y.s)
           c == NCmp(NMulPow10(x.m, s - x.s), NMulPow10(y.m, s - y.s))
       IN IF x.neg THEN -c ELSE c

\* the sign and the magnitude of the sum of two aligned mantissas
SumNeg(xneg, mx, yneg, my) == IF xneg = yneg \/ NCmp(mx, my) >= 0 THEN xneg ELSE yneg

SumMag(xneg, mx, yneg, my) ==
  IF xneg = yneg THEN NAdd(mx, my)
  ELSE IF NCmp(mx, my) >= 0 THEN NSub(mx, my)
  ELSE NSub(my, mx)

AddAligned(xneg, mx, yneg, my, s, msg) ==
  Fit(SumNeg(xneg, mx, yneg, my), SumMag(xneg, mx, yneg, my), s, FALSE, msg)

AddMsg(x, y, msg) ==
  AddAligned(x.neg, NMulPow10(x.m, Max2(x.s, y.s) - x.s),
             y.neg, NMulPow10(y.m, Max2(x.s, y.s) - y.s), Max2(x.s, y.s), msg)

\* impl Add, Sub, Mul, Div for Decimal
Add(x, y) == AddMsg(x, y, "Addition overflowed")

Sub(x, y) == AddMsg(x, Neg(y), "Subtraction overflowed")

Mul(x, y) ==
  Fit(x.neg # y.neg, NMul(x.m, y.m), x.s + y.s, FALSE, "Multiplication overflowed")

\* d is the quotient and the remainder of the mantissas, the dividend's
\* scaled to give one digit more than a Decimal holds
DivQuotient(neg, d, s) == Fit(neg, d.q, s, d.r # <<>>, "Division overflowed")

DivScaled(x, y, k) ==
  DivQuotient(x.neg # y.neg, NDivMod(NMulPow10(x.m, k), y.m), x.s - y.s + k)

Div(x, y) ==
  IF y.m = <<>> THEN Panic("Division by zero")
  ELSE IF x.m = <<>> THEN Done(ZERO, TRUE)
  ELSE DivScaled(x, y, Max2(MAX_PRECISION + 1 - x.s + y.s, 0))

\* An integer Decimal below Base^2 as a number
ToInt(x) == IF x.m = <<>> THEN 0 ELSE IF Len(x.m) = 1 THEN x.m[1] ELSE x.m[1] + Base * x.m[2]

\* The outcome b of a later operation, after an earlier one with outcome a
After(a, b) == IF b.err # "none" THEN b ELSE [b EXCEPT !.exact = a.exact /\ b.exact]

\* product * squared^i, stopping at the first overflow
RECURSIVE MulRepeat(_, _, _)
MulRepeat(product, squared, i) ==
  IF i = 0 \/ product.err # "none" THEN product
  ELSE MulRepeat(After(product, Mul(product.val, squared)), squared, i - 1)

\* MathematicalOps::checked_powu: the outcome's err is not "none" where it is None
powu_odd(x, exp, product) ==
  IF product.err # "none" \/ exp % 2 = 0 THEN product
  ELSE After(product, Mul(x, product.val))

powu_squared(x, exp, squared) ==
  IF exp = 2 \/ squared.err # "none" THEN squared
  ELSE powu_odd(x, exp, MulRepeat(After(squared, Done(ONE, TRUE)), squared.val,
                                  exp \div 2))

checked_powu(x, exp) ==
  IF exp = 0 THEN Done(ONE, TRUE)
  ELSE IF exp = 1 THEN Done(x, TRUE)
  ELSE powu_squared(x, exp, Mul(x, x))

\* MathematicalOps::checked_powi: the reciprocal of the power for a negative
\* exponent
powi_signed(pow, negative) ==
  IF ~negative \/ pow.err # "none" THEN pow ELSE After(pow, Div(ONE, pow.val))

checked_powi(x, exp, negative) == powi_signed(checked_powu(x, exp), negative)

\* MathematicalOps::powd: checked_powd, panicking with "Pow overflowed" on None.
\* A fractional exponent takes exp(ln(x) * y), and an integer one of Base^2 or
\* more runs that many multiplications: neither is modelled, the outcome is
\* marked "unmodelled" and no input of the model leads there.
expect_pow(r) == IF r.err # "none" THEN Panic("Pow overflowed") ELSE r

powd(x, exp) ==
  IF exp = ZERO THEN Done(ONE, TRUE)
  ELSE IF x = ZERO THEN Done(ZERO, TRUE)
  ELSE IF x = ONE THEN Done(ONE, TRUE)
  ELSE IF exp = ONE THEN Done(x, TRUE)
  ELSE IF exp.s # 0 \/ Len(exp.m) > 2 THEN Panic("unmodelled")
  ELSE expect_pow(checked_powi(x, ToInt(exp), exp.neg))

----------------------------------------------------------------------------
\* Evaluation of Decimal expressions in fv.rs.  A Result is the outcome of an
\* expression: err, val and exact as above, and ops, the operators evaluated
\* to get it, each with its right operand.  A panic in an operand is the panic of
\* the expression, the left operand's first.

Lit(d) == [err |-> "none", val |-> d, exact |-> TRUE, ops |-> {}]

Apply(x, y, r, op) ==
  [err |-> r.err, val |-> r.val, exact |-> x.exact /\ y.exact /\ r.exact,
   ops |-> x.ops \cup y.ops \cup {<<op, y.val>>}]

Failed(x, y) ==
  IF x.err # "none" THEN x ELSE [y EXCEPT !.ops = x.ops \cup y.ops]

RAdd(x, y) ==
  IF x.err # "none" \/ y.err # "none" THEN Failed(x, y)
  ELSE Apply(x, y, Add(x.val, y.val), "add")

RSub(x, y) ==
  IF x.err # "none" \/ y.err # "none" THEN Failed(x, y)
  ELSE Apply(x, y, Sub(x.val, y.val), "sub")

RMul(x, y) ==
  IF x.err # "none" \/ y.err # "none" THEN Failed(x, y)
  ELSE Apply(x, y, Mul(x.val, y.val), "mul")

RDiv(x, y) ==
  IF x.err # "none" \/ y.err # "none" THEN Failed(x, y)
  ELSE Apply(x, y, Div(x.val, y.val), "div")

RPowd(x, y) ==
  IF x.err # "none" \/ y.err # "none" THEN Failed(x, y)
  ELSE Apply(x, y, powd(x.val, y.val), "powd")

RNeg(x) == IF x.err # "none" THEN x ELSE [x EXCEPT !.val = Neg(x.val)]

\* Option<T>: None is the empty tuple, Some(x) the tuple of x
None == <<>>
Some(x) == <<x>>
unwrap_or(o, default) == IF o = None THEN default ELSE o[1]

----------------------------------------------------------------------------
\* fv.rs

\* a sign slip in line 44: pmt * nper - pv
zero_rate_minus_pv(nper, pmt, pv) == RSub(RMul(Lit(pmt), Lit(nper)), Lit(pv))

\* line 44: pmt * nper + pv
zero_rate(nper, pmt, pv) == RAdd(RMul(Lit(pmt), Lit(nper)), Lit(pv))

\* one period too many in line 47: (ONE + rate).powd(nper + ONE)
nth_power_one_more(rate, nper) ==
  RPowd(RAdd(Lit(ONE), Lit(rate)), RAdd(Lit(nper), Lit(ONE)))

\* line 47: (ONE + rate).powd(nper)
nth_power(rate, nper) == RPowd(RAdd(Lit(ONE), Lit(rate)), Lit(nper))

\* the annuity factor without its "- ONE": nth_power / rate
factor_no_minus_one(nth, rate) == RDiv(nth, Lit(rate))

\* line 48: (nth_power - ONE) / rate
factor(nth, rate) == RDiv(RSub(nth, Lit(ONE)), Lit(rate))

\* the present value left as it is: pv
pv_not_grown(pv, nth) == IF nth.err # "none" THEN nth ELSE [nth EXCEPT !.val = pv]

\* line 49: pv * nth_power
pv_grown(pv, nth) == RMul(Lit(pv), nth)

\* the extra period given to the whole sum: (pmt * factor + pv_grown) * (ONE + rate)
due_result_all_grown(rate, pmt, f, grown) ==
  RMul(RAdd(RMul(Lit(pmt), f), grown), RAdd(Lit(ONE), Lit(rate)))

\* the extra period forgotten: pmt * factor + pv_grown
due_result_as_ordinary(rate, pmt, f, grown) == RAdd(RMul(Lit(pmt), f), grown)

\* line 52: pmt * factor * (ONE + rate) + pv_grown
due_result(rate, pmt, f, grown) ==
  RAdd(RMul(RMul(Lit(pmt), f), RAdd(Lit(ONE), Lit(rate))), grown)

\* line 54: pmt * factor + pv_grown
ordinary_result(pmt, f, grown) == RAdd(RMul(Lit(pmt), f), grown)

\* lines 47-55: the statements after the zero-rate test, in order; a panic in
\* one ends the call there
after_pv_grown(rate, pmt, due, f, grown) ==
  IF f.err # "none" THEN f
  ELSE IF grown.err # "none" THEN [grown EXCEPT !.ops = f.ops \cup grown.ops]
  ELSE IF due THEN due_result(rate, pmt, f, grown)
  ELSE ordinary_result(pmt, f, grown)

after_nth_power(rate, pmt, pv, due, nth) ==
  IF nth.err # "none" THEN nth
  ELSE after_pv_grown(rate, pmt, due, factor(nth, rate), pv_grown(pv, nth))

general_rate(rate, nper, pmt, pv, due) ==
  after_nth_power(rate, pmt, pv, due, nth_power(rate, nper))

\* fv_internal without the zero-rate test of line 42
fv_internal_no_zero_test(rate, nper, pmt, pv, due) ==
  general_rate(rate, nper, pmt, unwrap_or(pv, ZERO), unwrap_or(due, FALSE))

\* fv_internal with other defaults: pv.unwrap_or(ONE), due.unwrap_or(true)
fv_internal_other_defaults(rate, nper, pmt, pv, due) ==
  LET pv0  == unwrap_or(pv, ONE)
      due0 == unwrap_or(due, TRUE)
  IN IF rate = ZERO THEN zero_rate(nper, pmt, pv0)
     ELSE general_rate(rate, nper, pmt, pv0, due0)

\* fv_internal enforcing "At least one of `pmt` or `pv` should be non-zero"
fv_internal_validating(rate, nper, pmt, pv, due) ==
  LET pv0  == unwrap_or(pv, ZERO)
      due0 == unwrap_or(due, FALSE)
  IN IF pmt = ZERO /\ pv0 = ZERO
     THEN [Lit(ZERO) EXCEPT !.err = "pmt and pv are both zero", !.exact = FALSE]
     ELSE IF rate = ZERO THEN zero_rate(nper, pmt, pv0)
     ELSE general_rate(rate, nper, pmt, pv0, due0)

fv_internal(rate, nper, pmt, pv, due) ==
  LET pv0  == unwrap_or(pv, ZERO)
      due0 == unwrap_or(due, FALSE)
  IN IF rate = ZERO THEN zero_rate(nper, pmt, pv0)
     ELSE general_rate(rate, nper, pmt, pv0, due0)

\* fv without the negation of line 79
fv_not_negated(rate, nper, pmt, pv, due) == fv_internal(rate, nper, pmt, pv, due)

fv(rate, nper, pmt, pv, due) ==
  LET result == fv_internal(rate, nper, pmt, pv, due)
  IN RNeg(result)

----------------------------------------------------------------------------
\* The calls checked: a grid of small inputs, the inputs of the tests of
\* fv.rs, and inputs at the limits of Decimal.

MaxRate == 6
MaxNper == 4
MaxPmt == 1
MaxPv == 1

\* |rate| up to MaxRate quarters, whole nper, pmt in hundreds, pv in five hundreds
RateSet == {Dec(25 * k, 2) : k \in -MaxRate..MaxRate}
NperSet == {Dec(k, 0) : k \in -MaxNper..MaxNper}
PmtSet  == {Dec(100 * k, 0) : k \in -MaxPmt..MaxPmt}
PvSet   == {None} \cup {Some(Dec(500 * k, 0)) : k \in -MaxPv..MaxPv}
DueSet  == {None, Some(FALSE), Some(TRUE)}

Grid == RateSet \X NperSet \X PmtSet \X PvSet \X DueSet

\* test_fv (lines 126-167) and test_fv_excel_compatible (lines 186-219)
TestCases ==
  { <<Dec(5, 2), Dec(10, 0), Dec(-100, 0), None, None>>,
    <<Dec(5, 2), Dec(10, 0), Dec(-100, 0), None, Some(TRUE)>>,
    <<ZERO, Dec(10, 0), Dec(-100, 0), None, None>>,
    <<Dec(5, 2), Dec(10, 0), Dec(-100, 0), Some(Dec(1000, 0)), None>>,
    <<Dec(5, 3), Dec(10, 0), Dec(-200, 0), Some(Dec(-500, 0)), Some(TRUE)>>,
    <<Dec(1, 2), Dec(12, 0), Dec(-1000, 0), None, None>> }

\* Decimal::MAX
MAX == [neg |-> FALSE, m |-> MAX_MANTISSA, s |-> 0]

\* Inputs on which Decimal rounds, underflows or overflows:
\*   1.5^163 is below Decimal::MAX and twice it is not;
\*   0.1^30 is below 10^-28, the smallest positive Decimal;
\*   10^-28 * 1.05 rounds to 10^-28;
\*   1 + Decimal::MAX and 3 * Decimal::MAX overflow.
Limits ==
  ({Dec(5, 1)} \X {Dec(163, 0)} \X {ZERO, Dec(-100, 0)} \X {None, Some(ZERO)} \X DueSet)
  \cup ({Dec(-9, 1)} \X {Dec(30, 0)} \X {Dec(-100, 0)} \X {None, Some(Dec(1000, 0))} \X DueSet)
  \cup ({Dec(5, 2)} \X {Dec(1, 0)} \X {Dec(-1, 28)} \X {None} \X DueSet)
  \cup ({MAX} \X {ZERO, ONE} \X {ZERO, Dec(-100, 0)} \X {None, Some(Dec(500, 0))} \X DueSet)
  \cup ({ZERO} \X {Dec(3, 0)} \X {MAX} \X {None, Some(Dec(500, 0))} \X DueSet)

Inputs == Grid \cup TestCases \cup Limits

----------------------------------------------------------------------------
\* One call of fv_internal or of fv on one input

VARIABLES rate, nper, pmt, pv, due, pc, ret

vars == <<rate, nper, pmt, pv, due, pc, ret>>

Init ==
  /\ \E in \in Inputs :
       /\ rate = in[1]
       /\ nper = in[2]
       /\ pmt = in[3]
       /\ pv = in[4]
       /\ due = in[5]
  /\ pc = "start"
  /\ ret = Lit(ZERO)

call_fv_internal ==
  /\ pc = "start"
  /\ pc' = "fv_internal"
  /\ ret' = fv_internal(rate, nper, pmt, pv, due)
  /\ UNCHANGED <<rate, nper, pmt, pv, due>>

call_fv ==
  /\ pc = "start"
  /\ pc' = "fv"
  /\ ret' = fv(rate, nper, pmt, pv, due)
  /\ UNCHANGED <<rate, nper, pmt, pv, due>>

Next == call_fv_internal \/ call_fv

Spec == Init /\ [][Next]_vars

----------------------------------------------------------------------------
\* Properties

Lt(x, y) == DCmp(x, y) < 0
Le(x, y) == DCmp(x, y) <= 0
Abs(x) == [x EXCEPT !.neg = FALSE]

\* the arguments as resolved by lines 39 and 40
pv0 == unwrap_or(pv, ZERO)
due0 == unwrap_or(due, FALSE)

\* a whole number below Base in magnitude, and its value
IsSmallInt(x) == x.s = 0 /\ Len(x.m) <= 1
IntOf(x) == IF x.neg THEN -ToInt(x) ELSE ToInt(x)

\* C1: fv returns the additive inverse of what fv_internal returns on the same
\* arguments: the two values sum to zero and differ in nothing but the sign,
\* and fv panics exactly where fv_internal does.
C1_SignInverse ==
  pc = "fv" =>
    LET i == fv_internal(rate, nper, pmt, pv, due)
    IN /\ ret.err = i.err
       /\ i.err = "none" =>
            /\ Add(ret.val, i.val) = Done(ZERO, TRUE)
            /\ ret.val.m = i.val.m /\ ret.val.s = i.val.s
            /\ i.val # ZERO => ret.val.neg # i.val.neg

C1_Witness == pc = "fv" /\ ret.err = "none" /\ ret.val # ZERO /\ pv # None /\ due # None

\* C2: at rate = 0 fv_internal returns pmt * nper + pv, whatever due is: the
\* Decimal expression's value (or its panic), and on small whole numbers the
\* integer pmt * nper + pv itself.
C2_ZeroRateLinear ==
  pc = "fv_internal" /\ rate = ZERO =>
    LET p == Mul(pmt, nper)
        s == Add(p.val, pv0)
    IN /\ ret.err = (IF p.err # "none" THEN p.err ELSE s.err)
       /\ ret.err = "none" => ret.val = s.val
       /\ IsSmallInt(pmt) /\ IsSmallInt(nper) /\ IsSmallInt(pv0) =>
            /\ ret.err = "none"
            /\ ret.val = Dec(IntOf(pmt) * IntOf(nper) + IntOf(pv0), 0)
       /\ \A d \in DueSet : fv_internal(rate, nper, pmt, pv, d) = ret

C2_Witness ==
  /\ pc = "fv_internal" /\ rate = ZERO /\ due = Some(TRUE)
  /\ pmt # ZERO /\ nper # ZERO /\ pv0 # ZERO /\ ret.err = "none"
  /\ ret.val # pv0

\* C3: at rate # 0, with g = (1 + rate)^nper and f = (g - 1) / rate, fv_internal
\* returns pmt * f + pv * g when due is false or absent and
\* pmt * f * (1 + rate) + pv * g when due is true; on whole rates above 0 and
\* whole periods from 0 that is the integer pmt * f [* (1 + rate)] + pv * g itself.
C3_CompoundFormula ==
  pc = "fv_internal" /\ rate # ZERO /\ ret.err = "none" =>
    LET growth == Add(ONE, rate).val
        g      == powd(growth, nper).val
        f      == Div(Sub(g, ONE).val, rate).val
        paid   == Mul(pmt, f).val
        grown  == Mul(pv0, g).val
        ig     == (1 + IntOf(rate)) ^ IntOf(nper)
        if     == (ig - 1) \div IntOf(rate)
    IN /\ ret.val = IF due0 THEN Add(Mul(paid, growth).val, grown).val
                    ELSE Add(paid, grown).val
       /\ ( /\ IsSmallInt(rate) /\ ~rate.neg /\ IsSmallInt(nper) /\ ~nper.neg
            /\ IsSmallInt(pmt) /\ IsSmallInt(pv0) ) =>
            ret.val = Dec(IntOf(pmt) * if * (IF due0 THEN 1 + IntOf(rate) ELSE 1)
                          + IntOf(pv0) * ig, 0)

C3_Witness ==
  /\ pc = "fv_internal" /\ rate # ZERO /\ rate # ONE /\ due = Some(TRUE)
  /\ pmt # ZERO /\ pv0 # ZERO /\ Lt(ONE, nper) /\ ret.err = "none"

Called == pc # "start"

\* C4 as claimed: at rate > 0 and pmt < 0 the result with due = true is
\* strictly less than the result with due = false, nper and pv being the same.
C4_DueAlwaysLess ==
  pc = "fv_internal" /\ due = Some(TRUE) /\ Lt(ZERO, rate) /\ Lt(pmt, ZERO) =>
    LET o == fv_internal(rate, nper, pmt, pv, Some(FALSE))
    IN ret.err = "none" /\ o.err = "none" => Lt(ret.val, o.val)

\* C4 amended: at rate > 0, pmt < 0 and a whole nper >= 1 the result with
\* due = true is never greater than the result with due = false, and strictly
\* less when no operation of either call rounded; at nper = 0 the two are equal.
C4_DueLessFromOnePeriod ==
  pc = "fv_internal" /\ due = Some(TRUE) /\ Lt(ZERO, rate) /\ Lt(pmt, ZERO) =>
    LET o == fv_internal(rate, nper, pmt, pv, Some(FALSE))
    IN ret.err = "none" /\ o.err = "none" =>
         /\ nper.s = 0 /\ Lt(ZERO, nper) =>
              /\ Le(ret.val, o.val)
              /\ ret.exact /\ o.exact => Lt(ret.val, o.val)
         /\ nper = ZERO => ret.val = o.val

C4_Witness ==
  /\ pc = "fv_internal" /\ due = Some(TRUE) /\ Lt(ZERO, rate) /\ Lt(pmt, ZERO)
  /\ Lt(ONE, nper) /\ pv0 # ZERO /\ ret.err = "none" /\ ret.exact
  /\ Lt(ret.val, fv_internal(rate, nper, pmt, pv, Some(FALSE)).val)

\* C5: an absent pv is pv = Some(0) and an absent due is due = Some(false),
\* to fv_internal and to fv: the same value, or the same panic.
C5_Defaults ==
  Called =>
    LET same(p, d) == IF pc = "fv" THEN fv(rate, nper, pmt, p, d)
                      ELSE fv_internal(rate, nper, pmt, p, d)
    IN /\ pv = None => ret = same(Some(ZERO), due)
       /\ due = None => ret = same(pv, Some(FALSE))

C5_Witness ==
  /\ Called /\ pv = None /\ due = None /\ rate # ZERO /\ pmt # ZERO
  /\ ret.err = "none" /\ ret.val # ZERO

\* the inputs of the tests, as in TestCases
Case1 == <<Dec(5, 2), Dec(10, 0), Dec(-100, 0), None, None>>
Case2 == <<Dec(5, 2), Dec(10, 0), Dec(-100, 0), None, Some(TRUE)>>
Case4 == <<Dec(5, 2), Dec(10, 0), Dec(-100, 0), Some(Dec(1000, 0)), None>>
Case5 == <<Dec(5, 3), Dec(10, 0), Dec(-200, 0), Some(Dec(-500, 0)), Some(TRUE)>>
Case6 == <<Dec(1, 2), Dec(12, 0), Dec(-1000, 0), None, None>>

\* the call returned a value less than tol away from expected
Near(expected, tol) ==
  /\ ret.err = "none"
  /\ LET d == Sub(ret.val, expected)
     IN d.err = "none" /\ Lt(Abs(d.val), tol)

\* C6: the results of the tests: fv_internal(0.05, 10, -100) is within 1e-5 of
\* -1257.78925, with due = true of -1320.67872, with pv = 1000 of 371.10537;
\* fv_internal(0.005, 10, -200, -500, true) is within 1e-5 of -2581.4033741 and
\* fv of the same within 0.01 of 2581.40; fv(0.01, 12, -1000) is within 0.01
\* of 12682.50.
C6_Scenarios ==
  LET in == <<rate, nper, pmt, pv, due>>
  IN /\ pc = "fv_internal" /\ in = Case1 => Near(Dec(-125778925, 5), Dec(1, 5))
     /\ pc = "fv_internal" /\ in = Case2 => Near(Dec(-132067872, 5), Dec(1, 5))
     /\ pc = "fv_internal" /\ in = Case4 => Near(Dec(37110537, 5), Dec(1, 5))
     /\ pc = "fv_internal" /\ in = Case5 =>
          Near([neg |-> TRUE, m |-> <<3741, 1403, 258>>, s |-> 7], Dec(1, 5))
     /\ pc = "fv" /\ in = Case5 => Near(Dec(258140, 2), Dec(1, 2))
     /\ pc = "fv" /\ in = Case6 => Near(Dec(1268250, 2), Dec(1, 2))

C6_Witness ==
  /\ pc = "fv" /\ <<rate, nper, pmt, pv, due>> = Case5
  /\ ret.err = "none" /\ ~ret.exact /\ Lt(Dec(2581, 0), ret.val)

\* (1 + rate)^nper is defined: neither 1 + rate nor the power overflows
PowerDefined ==
  rate # ZERO =>
    LET growth == Add(ONE, rate)
    IN growth.err = "none" /\ powd(growth.val, nper).err = "none"

\* ((1 + rate)^nper - 1) / rate is defined, the power being defined
FactorDefined ==
  rate # ZERO =>
    LET less == Sub(powd(Add(ONE, rate).val, nper).val, ONE)
    IN less.err = "none" /\ Div(less.val, rate).err = "none"

\* C7 as claimed: with pmt = 0 and pv = 0 or absent, fv_internal and fv raise
\* no error and return zero wherever the power is defined.
C7_ZeroWherePowerDefined ==
  Called /\ pmt = ZERO /\ pv0 = ZERO /\ PowerDefined =>
    ret.err = "none" /\ ret.val = ZERO

\* C7 amended: with pmt = 0 and pv = 0 or absent, fv_internal and fv raise no
\* error and return zero wherever the power is defined and the annuity factor
\* ((1 + rate)^nper - 1) / rate does not overflow.
C7_ZeroWhereFactorDefined ==
  Called /\ pmt = ZERO /\ pv0 = ZERO /\ PowerDefined /\ FactorDefined =>
    ret.err = "none" /\ ret.val = ZERO

C7_Witness ==
  /\ Called /\ pmt = ZERO /\ pv0 = ZERO /\ rate # ZERO /\ Lt(ONE, nper)
  /\ ret.err = "none" /\ ret.val = ZERO /\ "div" \in {o[1] : o \in ret.ops}

\* C8: no call divides by zero: every division evaluated in fv_internal has a
\* divisor other than zero, and at rate = 0 the call returns without having
\* evaluated the power or the division.
C8_NoDivisionByZero ==
  Called =>
    /\ \A o \in ret.ops : o[1] = "div" => o[2] = rate /\ o[2] # ZERO
    /\ rate = ZERO => \A o \in ret.ops : o[1] \notin {"div", "powd"}
    /\ ret.err # "Division by zero"

C8_Witness ==
  /\ pc = "fv_internal" /\ rate = ZERO /\ pmt # ZERO /\ nper # ZERO
  /\ ret.err = "none" /\ {o[1] : o \in ret.ops} = {"mul", "add"}

\* C9 as claimed: at rate > -1, with pv = Some(p), p > 0, fv_internal returns
\* strictly more than with pv absent, and exactly p * (1 + rate)^nper more
\* (p more at rate = 0).
C9_InvestmentStrictlyHigher ==
  pc = "fv_internal" /\ pv # None /\ Lt(ZERO, pv0) /\ Lt(Neg(ONE), rate) =>
    LET without == fv_internal(rate, nper, pmt, None, due)
        g == IF rate = ZERO THEN ONE ELSE powd(Add(ONE, rate).val, nper).val
    IN ret.err = "none" /\ without.err = "none" =>
         /\ Lt(without.val, ret.val)
         /\ Sub(ret.val, without.val).val = Mul(pv0, g).val

\* C9 amended: at rate > -1, with pv = Some(p), p > 0, fv_internal never
\* returns less than with pv absent; when no operation of the call rounded it
\* returns strictly more, and exactly p * (1 + rate)^nper more (p at rate = 0).
C9_InvestmentHigherWhenExact ==
  pc = "fv_internal" /\ pv # None /\ Lt(ZERO, pv0) /\ Lt(Neg(ONE), rate) =>
    LET without == fv_internal(rate, nper, pmt, None, due)
        g == IF rate = ZERO THEN ONE ELSE powd(Add(ONE, rate).val, nper).val
    IN ret.err = "none" /\ without.err = "none" =>
         /\ Le(without.val, ret.val)
         /\ ret.exact =>
              /\ Lt(without.val, ret.val)
              /\ Sub(ret.val, without.val) = Done(Mul(pv0, g).val, TRUE)

C9_Witness ==
  /\ pc = "fv_internal" /\ pv # None /\ Lt(ZERO, pv0) /\ Lt(Neg(ONE), rate)
  /\ rate # ZERO /\ pmt # ZERO /\ Lt(ONE, nper) /\ ret.err = "none" /\ ret.exact
  /\ Lt(fv_internal(rate, nper, pmt, None, due).val, ret.val)

\* C10: at nper = 0, for every rate whose 1 + rate is a Decimal and every pmt,
\* pv and due, fv_internal returns pv (0 when absent) and fv returns -pv.
C10_NoPeriods ==
  Called /\ nper = ZERO /\ (rate # ZERO => Add(ONE, rate).err = "none") =>
    /\ ret.err = "none"
    /\ ret.val = IF pc = "fv" THEN Neg(pv0) ELSE pv0

C10_Witness ==
  /\ pc = "fv" /\ nper = ZERO /\ rate # ZERO /\ pmt # ZERO /\ pv0 # ZERO
  /\ due = Some(TRUE) /\ ret.err = "none" /\ ret.val = Neg(pv0)

====
